---- MODULE Spec2Model ----
(***************************************************************************)
(* A model of gochat (github.com/zembrodt/gochat): the string set, the     *)
(* address and group registries (gochat.go), the directory server's        *)
(* request handlers and fan-out (svr/svr.go) and the client's push handler *)
(* and bootstrap (clnt/clnt.go).                                           *)
(***************************************************************************)
EXTENDS Integers, FiniteSets, Sequences, TLC

VARIABLES
    addrs,      \* Server.Addrs.v : username -> Addr (here: the port of the Addr)
    groups,     \* Server.Groups.v : group name -> [Owner, Users]
    status,     \* "running", or the panic that ended the server process
    listening,  \* ports on which some client listener is bound
    handlers,   \* one record per HandleRequest goroutine slot
    nreq,       \* number of connections accepted so far
    answers,    \* history: per username, init requests answered with a port
    last,       \* history: the registry call a sequential caller made last
    cstate,     \* per client: position in Connect / lifetime
    cport,      \* per client: the port its listener is bound to (0: none)
    cache,      \* per client: Client.MyGroups.v
    inbox,      \* per client: pushes accepted by Listen, not yet handled
    lost,       \* history: some Send returned an error instead of delivering
    pre         \* history: the registries and the request a lone handler began with

vars == <<addrs, groups, status, listening, handlers, nreq, answers,
          last, cstate, cport, cache, inbox, lost, pre>>

----------------------------------------------------------------------------
(* Bounds and value sets *)

NumUsers == 2
NumNames == 3
NumPorts == 2
MaxHandlers == 2
MaxRequests == 2
MaxCalls == 3
MaxCommands == 4
MaxServing == 1
MaxPushes == 2

UserNames == <<"a", "b", "c", "d", "e">>
\* usernames of the clients that talk to the server
Users == {UserNames[i] : i \in 1..NumUsers}
\* strings used as members and owners by direct callers of the registries
Names == {UserNames[i] : i \in 1..NumNames}
GroupNames == {"global", "g"}
Ports == 1..NumPorts

\* a map with no key
EmptyMap == [x \in {} |-> 0]

----------------------------------------------------------------------------
(* strset: StringSet and AtomicStringSet.  A set of strings is a TLA+ set. *)

\* StringSet.Add / AtomicStringSet.Add: inserts s, returns whether s was new
StringSetAdd(set, s) == [found |-> s \notin set, set |-> set \cup {s}]

StringSetContains(set, s) == s \in set

\* AtomicStringSet.Remove: deletes s when present, returns whether it was
StringSetRemove(set, s) == [found |-> s \in set, set |-> set \ {s}]

----------------------------------------------------------------------------
(* gochat.AddrMap: the halves of each operation are the read-locked check  *)
(* and the write-locked mutation.                                          *)

AddrMapGet(v, user) ==
    IF user \in DOMAIN v THEN [ok |-> TRUE, addr |-> v[user]]
    ELSE [ok |-> FALSE, addr |-> 0]

\* Add, lines 98-100: the value of ok after the read-locked lookup
AddrMapAddCheck(v, user) == user \in DOMAIN v

\* Add, lines 102-104: v[user] = addr
AddrMapAddWrite(v, user, addr) ==
    [x \in DOMAIN v \cup {user} |-> IF x = user THEN addr ELSE v[x]]

\* Remove, lines 113-115
AddrMapRemoveCheck(v, user) == user \in DOMAIN v

\* Remove, lines 117-119: delete(v, user)
AddrMapRemoveWrite(v, user) == [x \in DOMAIN v \ {user} |-> v[x]]

----------------------------------------------------------------------------
(* gochat.GroupMap *)

Group(owner, users) == [Owner |-> owner, Users |-> users]

GroupMapGet(v, g) ==
    IF g \in DOMAIN v THEN [ok |-> TRUE, group |-> v[g]]
    ELSE [ok |-> FALSE, group |-> Group("", {})]

\* AddUser that does not look whether the user is a member already
GroupMapAddUserCheckNoContains(v, g, user) == g \in DOMAIN v

\* AddUser, lines 139-144: ok after the read-locked section
GroupMapAddUserCheck(v, g, user) ==
    IF g \in DOMAIN v THEN ~StringSetContains(v[g].Users, user) ELSE FALSE

\* v[g].Users is a nil *AtomicStringSet when g is not a key of the map:
\* calling Add or Remove on it dereferences nil and panics
GroupMapFaults(v, g) == g \notin DOMAIN v

\* AddUser, lines 146-148: v[g].Users.Add(user)
GroupMapAddUserWrite(v, g, user) ==
    [v EXCEPT ![g].Users = StringSetAdd(@, user).set]

\* RemoveUser that reports every user of an existing group as removed
GroupMapRemoveUserCheckNoContains(v, g, user) == g \in DOMAIN v

\* RemoveUser, lines 155-159
GroupMapRemoveUserCheck(v, g, user) ==
    IF g \in DOMAIN v THEN StringSetContains(v[g].Users, user) ELSE FALSE

\* RemoveUser, lines 161-163: v[g].Users.Remove(user)
GroupMapRemoveUserWrite(v, g, user) ==
    [v EXCEPT ![g].Users = StringSetRemove(@, user).set]

\* ContainsUser: <<contains, ok>>
GroupMapContainsUser(v, g, user) ==
    IF g \in DOMAIN v THEN <<StringSetContains(v[g].Users, user), TRUE>>
    ELSE <<FALSE, FALSE>>

\* Create that does not look the name up
GroupMapCreateCheckNoLookup(v, g) == FALSE

\* Create, lines 181-183: ok after the read-locked lookup
GroupMapCreateCheck(v, g) == g \in DOMAIN v

\* Create, lines 185-188: v[g] = Group{owner, NewAtomicStringSet()}
GroupMapCreateWrite(v, g, owner) ==
    [x \in DOMAIN v \cup {g} |-> IF x = g THEN Group(owner, {}) ELSE v[x]]

\* Delete, lines 196-198
GroupMapDeleteCheck(v, g) == g \in DOMAIN v

\* Delete, lines 200-202: delete(v, g)
GroupMapDeleteWrite(v, g) == [x \in DOMAIN v \ {g} |-> v[x]]

GroupMapGroupNames(v) == DOMAIN v

(* The whole operations, as one caller with no concurrent caller runs them *)

GroupMapCreate(v, g, owner) ==
    LET ok == GroupMapCreateCheck(v, g)
    IN  [ok |-> ~ok, v |-> IF ~ok THEN GroupMapCreateWrite(v, g, owner) ELSE v]

GroupMapDelete(v, g) ==
    LET ok == GroupMapDeleteCheck(v, g)
    IN  [ok |-> ok, v |-> IF ok THEN GroupMapDeleteWrite(v, g) ELSE v]

GroupMapAddUser(v, g, user) ==
    LET ok == GroupMapAddUserCheck(v, g, user)
    IN  [ok |-> ok, v |-> IF ok THEN GroupMapAddUserWrite(v, g, user) ELSE v]

GroupMapRemoveUser(v, g, user) ==
    LET ok == GroupMapRemoveUserCheck(v, g, user)
    IN  [ok |-> ok, v |-> IF ok THEN GroupMapRemoveUserWrite(v, g, user) ELSE v]

----------------------------------------------------------------------------
(* gochat.Msg.  A text is a sequence of tokens, so that what fmt.Sprintf   *)
(* builds is told apart by its parts.                                      *)

Msg(user, to, text, cmd) == [User |-> user, To |-> to, Msg |-> text, Cmd |-> cmd]

EmptyMsg == Msg("", "", <<>>, "")

\* a bag of values: value -> number of occurrences
AddRec(bag, r) ==
    IF r \in DOMAIN bag THEN [bag EXCEPT ![r] = @ + 1] ELSE bag @@ (r :> 1)

DelRec(bag, r) ==
    IF bag[r] > 1 THEN [bag EXCEPT ![r] = @ - 1]
    ELSE [x \in DOMAIN bag \ {r} |-> bag[x]]

EmptyBag == [x \in {} |-> 0]

Count(bag, r) == IF r \in DOMAIN bag THEN bag[r] ELSE 0

\* AnyPort in `listening` stands for clients left to the environment: they
\* bind and close listeners at any time, so whether a dial finds a listener
\* is open at each send
AnyPort == 0

\* Msg.Send(addr): net.Dial fails when nothing listens on addr, and then
\* conn is nil and `defer conn.Close()` panics; after a successful dial
\* Encode either writes the record or returns its error
SendOutcomes(port) ==
    IF AnyPort \in listening THEN {"ok", "encodeErr", "panic"}
    ELSE IF port \in listening THEN {"ok", "encodeErr"} ELSE {"panic"}

\* the record is accepted by the listener bound to the port, if a client of
\* the model owns it
Deliver(port, rec) ==
    [c \in DOMAIN inbox |->
        IF cport[c] = port /\ cstate[c] \in {"listening", "ready"}
        THEN AddRec(inbox[c], rec) ELSE inbox[c]]

----------------------------------------------------------------------------
(* svr.Server: one HandleRequest goroutine per accepted connection *)

H == 1..MaxHandlers

NoCall == [op |-> "none", key |-> "", user |-> "", port |-> 0]

NoFan == [stage |-> "none", msg |-> EmptyMsg, pending |-> {}]

IdleHandler ==
    [pc |-> "idle", cmd |-> "", msg |-> EmptyMsg, port |-> 0, addr |-> 0,
     call |-> NoCall, fan |-> NoFan, todo |-> {}, cur |-> "",
     resp |-> EmptyMsg, reply |-> "", read |-> FALSE, sent |-> EmptyBag,
     errs |-> 0, encFailed |-> {}, closed |-> FALSE, tainted |-> FALSE,
     req |-> NoCall, ok |-> FALSE]

\* the handler is at label pc and is not waiting for a registry write or
\* for SendGroupMsg to close the error channel
At(h, pc) ==
    /\ status = "running"
    /\ handlers[h].pc = pc
    /\ handlers[h].call.op = "none"
    /\ handlers[h].fan.stage = "none"

\* go server.SendGroupMsg(msg, errCh) followed by the drain loop
StartFan(m) == [stage |-> "get", msg |-> m, pending |-> {}]

\* what no step of the server touches
Frame == UNCHANGED <<listening, cstate, cport, cache, last, pre>>

\* a step of handler h that touches nothing but the handler itself
Local(h, rec) ==
    /\ handlers' = [handlers EXCEPT ![h] = rec]
    /\ UNCHANGED <<addrs, groups, status, nreq, answers, inbox, lost>>
    /\ Frame

\* Msg.Send to a port on behalf of handler h; nxtOk / nxtErr is the handler
\* after a nil / non-nil error
DoSend(h, port, to, rec, nxtOk, nxtErr) ==
    \E out \in SendOutcomes(port) :
        /\ status' = IF out = "panic" THEN "panicDial" ELSE status
        /\ inbox' = IF out = "ok" THEN Deliver(port, rec) ELSE inbox
        /\ lost' = (lost \/ out = "encodeErr")
        /\ handlers' = [handlers EXCEPT ![h] =
              CASE out = "panic" -> @
                [] out = "ok" ->
                     [nxtOk EXCEPT !.sent = AddRec(@, [to |-> to, rec |-> rec])]
                [] OTHER -> nxtErr]
        /\ UNCHANGED <<addrs, groups, nreq, answers>>
        /\ Frame

\* Server.SendMsg(msg, user)
SendMsg(h, rec, user, nxtOk, nxtErr) ==
    LET r == AddrMapGet(addrs, user)
    IN  IF r.ok THEN DoSend(h, r.addr, user, rec, nxtOk, nxtErr)
        ELSE Local(h, nxtErr)

\* the handler record as `go server.SendGroupMsg(m, errCh)` leaves it
WithFan(rec, m) ==
    [rec EXCEPT !.fan = StartFan(m), !.errs = 0, !.closed = FALSE,
                !.encFailed = {}]

\* fmt.Sprintf("[%s] %s", msg.To, msg.Msg)
Bracket(to, text) == <<"[", to, "] ">> \o text

(* Accept: Listen's loop accepts a connection and starts HandleRequest,   *)
(* which decodes the record (lines 42-62).                                *)

\* the goroutine of slot x has returned (or the slot was never used); what
\* it did stays readable until the slot is taken again
Returned(x) ==
    /\ handlers[x].pc \in {"idle", "done"}
    /\ handlers[x].call.op = "none"
    /\ handlers[x].fan.stage = "none"

\* the goroutine slots are interchangeable: a new goroutine takes the first
\* free one
FreeSlot(h) ==
    /\ Returned(h)
    /\ \A x \in H : x < h => ~Returned(x)
    /\ handlers[h].reply # "" =>
          handlers[h].read \/ cstate[handlers[h].msg.User] = "unmodelled"

\* a disconnect request of user u ends the span in which the init answers
\* for u are counted, and so does the removal of u's Addr
AcceptReq(h, m, p) ==
    /\ status = "running"
    /\ FreeSlot(h)
    /\ nreq' = nreq + 1
    /\ handlers' =
         [x \in H |->
            IF x = h
            THEN [IdleHandler EXCEPT !.pc = m.Cmd, !.cmd = m.Cmd, !.msg = m,
                                     !.port = p]
            ELSE IF m.Cmd = "disconnect" /\ handlers[x].cmd = "init"
                    /\ handlers[x].msg.User = m.User
                 THEN [handlers[x] EXCEPT !.tainted = TRUE]
                 ELSE handlers[x]]
    /\ answers' = IF m.Cmd = "disconnect"
                  THEN [answers EXCEPT ![m.User] = 0] ELSE answers
    /\ UNCHANGED <<addrs, groups, status, lost>>

\* a request from a client that is not part of the model
Accept(h, m, p) ==
    /\ nreq < MaxRequests
    /\ AcceptReq(h, m, p)
    /\ UNCHANGED inbox
    /\ Frame

\* msg.Retrieve fails (lines 58-62): the handler returns
AcceptBad(h) ==
    /\ status = "running"
    /\ FreeSlot(h)
    /\ nreq < MaxRequests
    /\ nreq' = nreq + 1
    /\ handlers' = [handlers EXCEPT ![h] =
                       [IdleHandler EXCEPT !.pc = "done", !.cmd = "decodeError"]]
    /\ UNCHANGED <<addrs, groups, status, answers, inbox, lost>>
    /\ Frame

(* The write-locked half of the registry call the handler is in *)

AddrWrite(h) ==
    LET c == handlers[h].call
    IN  /\ status = "running"
        /\ c.op \in {"AddrAdd", "AddrRemove"}
        /\ addrs' = IF c.op = "AddrAdd"
                    THEN AddrMapAddWrite(addrs, c.key, c.port)
                    ELSE AddrMapRemoveWrite(addrs, c.key)
        /\ handlers' =
             [x \in H |->
                IF x = h THEN [handlers[x] EXCEPT !.call = NoCall]
                ELSE IF c.op = "AddrRemove" /\ handlers[x].cmd = "init"
                        /\ handlers[x].msg.User = c.key
                     THEN [handlers[x] EXCEPT !.tainted = TRUE]
                     ELSE handlers[x]]
        /\ answers' = IF c.op = "AddrRemove"
                      THEN [answers EXCEPT ![c.key] = 0] ELSE answers
        /\ UNCHANGED <<groups, status, nreq, inbox, lost>>
        /\ Frame

GroupWrite(h) ==
    LET c == handlers[h].call
    IN  /\ status = "running"
        /\ c.op \in {"AddUser", "RemoveUser", "Create", "Delete"}
        /\ IF c.op \in {"AddUser", "RemoveUser"} /\ GroupMapFaults(groups, c.key)
           THEN /\ status' = "panicNil"
                /\ UNCHANGED <<groups, handlers>>
           ELSE /\ groups' =
                     CASE c.op = "AddUser" -> GroupMapAddUserWrite(groups, c.key, c.user)
                       [] c.op = "RemoveUser" -> GroupMapRemoveUserWrite(groups, c.key, c.user)
                       [] c.op = "Create" -> GroupMapCreateWrite(groups, c.key, c.user)
                       [] OTHER -> GroupMapDeleteWrite(groups, c.key)
                /\ handlers' = [handlers EXCEPT ![h].call = NoCall]
                /\ UNCHANGED status
        /\ UNCHANGED <<addrs, nreq, answers, inbox, lost>>
        /\ Frame

Call(op, key, user, port) == [op |-> op, key |-> key, user |-> user, port |-> port]

(* Server.SendGroupMsg, lines 389-418 *)

\* a fan-out that does not leave the sender out
FanGetAll(h) ==
    LET f == handlers[h].fan
        r == GroupMapGet(groups, f.msg.To)
    IN  /\ status = "running"
        /\ f.stage = "get"
        /\ Local(h, IF r.ok
                    THEN [handlers[h] EXCEPT !.fan.stage = "loop",
                                             !.fan.pending = r.group.Users]
                    ELSE [handlers[h] EXCEPT !.fan.stage = "close",
                                             !.errs = @ + 1])

\* Groups.Get(msg.To) and the snapshot group.Users.Array() the loop ranges over
FanGet(h) ==
    LET f == handlers[h].fan
        r == GroupMapGet(groups, f.msg.To)
    IN  /\ status = "running"
        /\ f.stage = "get"
        /\ Local(h, IF r.ok
                    THEN [handlers[h] EXCEPT !.fan.stage = "loop",
                                             !.fan.pending = r.group.Users \ {f.msg.User}]
                    ELSE [handlers[h] EXCEPT !.fan.stage = "close",
                                             !.errs = @ + 1])

\* one iteration of the loop, for a member other than msg.User
FanSend(h, user) ==
    LET f == handlers[h].fan
        response == [f.msg EXCEPT !.Msg = Bracket(f.msg.To, f.msg.Msg)]
        nxt == [handlers[h] EXCEPT !.fan.pending = @ \ {user}]
    IN  /\ status = "running"
        /\ f.stage = "loop"
        /\ user \in f.pending
        /\ SendMsg(h, response, user, nxt,
                   [nxt EXCEPT !.errs = @ + 1,
                               !.encFailed = IF user \in DOMAIN addrs
                                             THEN @ \cup {user} ELSE @])

\* close(c): the drain loop of HandleRequest ends
FanClose(h) ==
    LET f == handlers[h].fan
    IN  /\ status = "running"
        /\ \/ f.stage = "close"
           \/ f.stage = "loop" /\ f.pending = {}
        /\ Local(h, [handlers[h] EXCEPT !.fan = NoFan, !.closed = TRUE])

(* HandleRequest, case "init", lines 70-129 *)

\* addrs.Get(msg.User), line 74; the else branch answers "alreadyExists"
InitGet(h) ==
    LET hr == handlers[h]
        r == AddrMapGet(addrs, hr.msg.User)
    IN  /\ At(h, "init")
        /\ Local(h, IF r.ok
                    THEN [hr EXCEPT !.pc = "done", !.reply = "alreadyExists"]
                    ELSE [hr EXCEPT !.pc = "initAdd"])

\* addrs.Add(msg.User, addr), line 80: the read-locked check
InitAdd(h) ==
    LET hr == handlers[h]
        ok == AddrMapAddCheck(addrs, hr.msg.User)
    IN  /\ At(h, "initAdd")
        /\ Local(h, [hr EXCEPT !.pc = "initPort", !.ok = ~ok,
                               !.call = IF ~ok
                                        THEN Call("AddrAdd", hr.msg.User, "", hr.port)
                                        ELSE NoCall])

\* encoder.Encode(addr.Port), line 84
InitPort(h) ==
    LET hr == handlers[h]
    IN  /\ At(h, "initPort")
        /\ handlers' = [handlers EXCEPT ![h] = [hr EXCEPT !.pc = "initJoin",
                                                       !.reply = "port"]]
        /\ answers' = IF hr.tainted THEN answers
                      ELSE [answers EXCEPT ![hr.msg.User] = @ + 1]
        /\ UNCHANGED <<addrs, groups, status, nreq, inbox, lost>>
        /\ Frame

\* groups.AddUser("global", msg.User), line 90
InitJoin(h) ==
    LET hr == handlers[h]
        ok == GroupMapAddUserCheck(groups, "global", hr.msg.User)
    IN  /\ At(h, "initJoin")
        /\ Local(h, IF ok
                    THEN [hr EXCEPT !.pc = "initSync",
                                    !.call = Call("AddUser", "global", hr.msg.User, 0)]
                    ELSE [hr EXCEPT !.pc = "initCreate"])

\* groups.Create("global", ""), line 91
InitCreate(h) ==
    LET hr == handlers[h]
        ok == GroupMapCreateCheck(groups, "global")
    IN  /\ At(h, "initCreate")
        /\ Local(h, [hr EXCEPT !.pc = "initJoin2",
                               !.call = IF ~ok THEN Call("Create", "global", "", 0)
                                        ELSE NoCall])

\* groups.AddUser("global", msg.User), line 92
InitJoin2(h) ==
    LET hr == handlers[h]
        ok == GroupMapAddUserCheck(groups, "global", hr.msg.User)
    IN  /\ At(h, "initJoin2")
        /\ Local(h, [hr EXCEPT !.pc = "initSync",
                               !.call = IF ok
                                        THEN Call("AddUser", "global", hr.msg.User, 0)
                                        ELSE NoCall])

\* msg as lines 109-111 rewrite it before the broadcast
OnlineMsg(m) == Msg(m.User, "global", <<m.User, " is online.">>, "join")

\* lines 96-98: addrs.Get(msg.User), groups.Get("global"), group.Users.Array();
\* Users is nil when "global" is not in the map
InitSync(h) ==
    LET hr == handlers[h]
        a == AddrMapGet(addrs, hr.msg.User)
        r == GroupMapGet(groups, "global")
    IN  /\ At(h, "initSync")
        /\ IF a.ok /\ ~r.ok
           THEN /\ status' = "panicNil"
                /\ UNCHANGED <<addrs, groups, handlers, nreq, answers, inbox, lost>>
                /\ Frame
           ELSE Local(h, IF a.ok
                         THEN [hr EXCEPT !.pc = "initSyncLoop",
                                         !.addr = a.addr,
                                         !.todo = r.group.Users \ {hr.msg.User}]
                         ELSE WithFan([hr EXCEPT !.pc = "done",
                                                 !.msg = OnlineMsg(hr.msg)],
                                      OnlineMsg(hr.msg)))

\* lines 99-105: cacheUpdate.Send(addr.String()) for one other member
InitSyncSend(h, member) ==
    LET hr == handlers[h]
        cacheUpdate == Msg(member, "global", <<>>, "join")
        nxt == [hr EXCEPT !.todo = @ \ {member}]
    IN  /\ At(h, "initSyncLoop")
        /\ member \in hr.todo
        /\ DoSend(h, hr.addr, hr.msg.User, cacheUpdate, nxt, nxt)

\* lines 109-121: the broadcast to "global"
InitBcast(h) ==
    LET hr == handlers[h]
    IN  /\ At(h, "initSyncLoop")
        /\ hr.todo = {}
        /\ Local(h, WithFan([hr EXCEPT !.pc = "done", !.msg = OnlineMsg(hr.msg)],
                            OnlineMsg(hr.msg)))

(* the response to the sender that ends most cases:                        *)
(* server.SendMsg(response, response.User)                                 *)
Respond(h) ==
    LET hr == handlers[h]
        nxt == [hr EXCEPT !.pc = "done"]
    IN  /\ At(h, "respond")
        /\ SendMsg(h, hr.resp, hr.resp.User, nxt, nxt)

\* a response that keeps the command tag of the request
ResponseKeepsTag(m, text, cmd) == [m EXCEPT !.Msg = text]

\* response := *msg with Cmd and Msg set
Response(m, text, cmd) == [m EXCEPT !.Msg = text, !.Cmd = cmd]

(* case "join", lines 131-170 *)

JoinAdd(h) ==
    LET hr == handlers[h]
        m == hr.msg
        ok == GroupMapAddUserCheck(groups, m.To, m.User)
    IN  /\ At(h, "join")
        /\ Local(h, IF ok
                    THEN [hr EXCEPT !.pc = "joinBcast",
                                    !.call = Call("AddUser", m.To, m.User, 0),
                                    !.resp = Response(m, <<"You have joined the group ", m.To, ".">>, "join")]
                    ELSE [hr EXCEPT !.pc = "respond",
                                    !.resp = Response(m, <<"Group ", m.To, " doesn't exist.">>, "")])

JoinBcast(h) ==
    LET hr == handlers[h]
        m == [hr.msg EXCEPT !.Msg = <<hr.msg.User, " has joined the group.">>]
    IN  /\ At(h, "joinBcast")
        /\ Local(h, WithFan([hr EXCEPT !.pc = "joinNotify", !.msg = m], m))

\* line 153
JoinNotify(h) ==
    LET hr == handlers[h]
        nxt == [hr EXCEPT !.pc = "joinSync"]
    IN  /\ At(h, "joinNotify")
        /\ SendMsg(h, hr.resp, hr.resp.User, nxt, nxt)

\* lines 156-157: groups.Get(msg.To) and group.Users.Array()
JoinSync(h) ==
    LET hr == handlers[h]
        r == GroupMapGet(groups, hr.msg.To)
    IN  /\ At(h, "joinSync")
        /\ IF ~r.ok
           THEN /\ status' = "panicNil"
                /\ UNCHANGED <<addrs, groups, handlers, nreq, answers, inbox, lost>>
                /\ Frame
           ELSE Local(h, [hr EXCEPT !.pc = "joinSyncLoop",
                                    !.todo = r.group.Users \ {hr.msg.User}])

\* a join that sends the new member no record about the members it found
JoinSyncSendSkipped(h, member) ==
    /\ At(h, "joinSyncLoop")
    /\ member \in handlers[h].todo
    /\ Local(h, [handlers[h] EXCEPT !.todo = @ \ {member}])

\* lines 158-164: server.SendMsg(cacheUpdate, msg.User) for one other member
JoinSyncSend(h, member) ==
    LET hr == handlers[h]
        cacheUpdate == Msg(member, hr.msg.To, <<>>, "join")
        nxt == [hr EXCEPT !.todo = @ \ {member}]
    IN  /\ At(h, "joinSyncLoop")
        /\ member \in hr.todo
        /\ SendMsg(h, cacheUpdate, hr.msg.User, nxt, nxt)

JoinEnd(h) ==
    /\ At(h, "joinSyncLoop")
    /\ handlers[h].todo = {}
    /\ Local(h, [handlers[h] EXCEPT !.pc = "done"])

(* case "dm", lines 172-178 *)

Dm(h) ==
    LET hr == handlers[h]
        dmMsg == Msg("", "", <<hr.msg.User, " whispers ">> \o hr.msg.Msg, "")
        nxt == [hr EXCEPT !.pc = "done"]
    IN  /\ At(h, "dm")
        /\ SendMsg(h, dmMsg, hr.msg.To, nxt, nxt)

(* case "group", lines 180-210 *)

GroupSay(h) ==
    LET hr == handlers[h]
        m == hr.msg
        c == GroupMapContainsUser(groups, m.To, m.User)
        out == [m EXCEPT !.Msg = <<m.User, ": ">> \o m.Msg]
    IN  /\ At(h, "group")
        /\ Local(h,
             IF c[1]
             THEN WithFan([hr EXCEPT !.pc = "respond", !.msg = out,
                              !.resp = Response(m, <<"[", m.To, "] ", m.User, ": ">> \o m.Msg, "")],
                          out)
             ELSE [hr EXCEPT !.pc = "respond",
                      !.resp = Response(m,
                                 IF ~c[2] THEN <<"Group ", m.To, " doesn't exist.">>
                                 ELSE <<"You don't have access to group ", m.To, "!">>,
                                 "")])

(* case "leave", lines 212-239 *)

LeaveRemove(h) ==
    LET hr == handlers[h]
        m == hr.msg
        ok == GroupMapRemoveUserCheck(groups, m.To, m.User)
    IN  /\ At(h, "leave")
        /\ Local(h, IF ok
                    THEN [hr EXCEPT !.pc = "leaveBcast",
                                    !.call = Call("RemoveUser", m.To, m.User, 0),
                                    !.resp = Response(m, <<"You have left the group ", m.To, ".">>, "leave")]
                    ELSE [hr EXCEPT !.pc = "respond",
                                    !.resp = Response(m, <<"Group ", m.To, " doesn't exist.">>, "")])

LeaveBcast(h) ==
    LET hr == handlers[h]
        m == [hr.msg EXCEPT !.Msg = <<hr.msg.User, " has left the group.">>]
    IN  /\ At(h, "leaveBcast")
        /\ Local(h, WithFan([hr EXCEPT !.pc = "respond", !.msg = m], m))

(* case "create", lines 241-257 *)

CreateGroup(h) ==
    LET hr == handlers[h]
        m == hr.msg
        ok == GroupMapCreateCheck(groups, m.To)
    IN  /\ At(h, "create")
        /\ Local(h, IF ~ok
                    THEN [hr EXCEPT !.pc = "createAdd",
                                    !.call = Call("Create", m.To, m.User, 0),
                                    !.resp = Response(m, <<"You created the group ", m.To, "!">>, "create")]
                    ELSE [hr EXCEPT !.pc = "respond",
                                    !.resp = Response(m, <<"Group ", m.To, " already exists!">>, "")])

\* a create that does not add the creator to the group
CreateAddSkipped(h) ==
    /\ At(h, "createAdd")
    /\ Local(h, [handlers[h] EXCEPT !.pc = "respond"])

\* groups.AddUser(msg.To, msg.User), line 249
CreateAdd(h) ==
    LET hr == handlers[h]
        ok == GroupMapAddUserCheck(groups, hr.msg.To, hr.msg.User)
    IN  /\ At(h, "createAdd")
        /\ Local(h, [hr EXCEPT !.pc = "respond",
                               !.call = IF ok
                                        THEN Call("AddUser", hr.msg.To, hr.msg.User, 0)
                                        ELSE NoCall])

(* case "delete", lines 259-293 *)

\* a delete that any user may ask for
DeleteGetNoOwnerCheck(h) ==
    LET hr == handlers[h]
        m == hr.msg
        r == GroupMapGet(groups, m.To)
        out == [m EXCEPT !.Msg = <<"has been deleted.">>]
    IN  /\ At(h, "delete")
        /\ Local(h,
             IF r.ok
             THEN WithFan([hr EXCEPT !.pc = "deleteDel", !.msg = out,
                              !.resp = Response(m, <<"You deleted the group ", m.To, "!">>, "delete")],
                          out)
             ELSE [hr EXCEPT !.pc = "respond",
                      !.resp = Response(m, <<"Group ", m.To, " doesn't exist!">>, "")])

DeleteGet(h) ==
    LET hr == handlers[h]
        m == hr.msg
        r == GroupMapGet(groups, m.To)
        out == [m EXCEPT !.Msg = <<"has been deleted.">>]
    IN  /\ At(h, "delete")
        /\ Local(h,
             IF r.ok /\ r.group.Owner = m.User
             THEN WithFan([hr EXCEPT !.pc = "deleteDel", !.msg = out,
                              !.resp = Response(m, <<"You deleted the group ", m.To, "!">>, "delete")],
                          out)
             ELSE [hr EXCEPT !.pc = "respond",
                      !.resp = Response(m,
                                 IF r.ok
                                 THEN <<"You don't have permission to delete the group ", m.To, "!">>
                                 ELSE <<"Group ", m.To, " doesn't exist!">>,
                                 "")])

\* a delete that answers the owner and leaves the group in the registry
DeleteDelSkipped(h) ==
    /\ At(h, "deleteDel")
    /\ Local(h, [handlers[h] EXCEPT !.pc = "respond"])

\* groups.Delete(msg.To), line 283: the read-locked check
DeleteDel(h) ==
    LET hr == handlers[h]
        ok == GroupMapDeleteCheck(groups, hr.msg.To)
    IN  /\ At(h, "deleteDel")
        /\ Local(h, [hr EXCEPT !.pc = "respond",
                               !.call = IF ok THEN Call("Delete", hr.msg.To, "", 0)
                                        ELSE NoCall])

(* case "disconnect", lines 295-323 *)

\* addrs.Remove(msg.User), line 299: the read-locked check
DiscRemove(h) ==
    LET hr == handlers[h]
        ok == AddrMapRemoveCheck(addrs, hr.msg.User)
    IN  /\ At(h, "disconnect")
        /\ Local(h, IF ok
                    THEN [hr EXCEPT !.pc = "discNames",
                                    !.call = Call("AddrRemove", hr.msg.User, "", 0)]
                    ELSE [hr EXCEPT !.pc = "done"])

\* a disconnect that looks at no group
DiscNamesNone(h) ==
    /\ At(h, "discNames")
    /\ Local(h, [handlers[h] EXCEPT !.pc = "discLoop", !.todo = {}])

\* groups.GroupNames(), line 301
DiscNames(h) ==
    /\ At(h, "discNames")
    /\ Local(h, [handlers[h] EXCEPT !.pc = "discLoop",
                                    !.todo = GroupMapGroupNames(groups)])

\* line 302: `_, contains := groups.ContainsUser(groupName, msg.User)` for
\* the next group name; the value tested is the second one, which tells
\* whether the group exists
DiscContains(h, g) ==
    LET hr == handlers[h]
        c == GroupMapContainsUser(groups, g, hr.msg.User)
    IN  /\ At(h, "discLoop")
        /\ g \in hr.todo
        /\ Local(h, IF c[2]
                    THEN [hr EXCEPT !.pc = "discRemoveUser", !.cur = g,
                                    !.todo = @ \ {g}]
                    ELSE [hr EXCEPT !.todo = @ \ {g}])

\* groups.RemoveUser(groupName, msg.User), line 304
DiscRemoveUser(h) ==
    LET hr == handlers[h]
        ok == GroupMapRemoveUserCheck(groups, hr.cur, hr.msg.User)
    IN  /\ At(h, "discRemoveUser")
        /\ Local(h, [hr EXCEPT !.pc = "discBcast",
                               !.call = IF ok
                                        THEN Call("RemoveUser", hr.cur, hr.msg.User, 0)
                                        ELSE NoCall])

\* lines 306-318
DiscBcast(h) ==
    LET hr == handlers[h]
        m == Msg(hr.msg.User, hr.cur, <<hr.msg.User, " has left the group.">>, "leave")
    IN  /\ At(h, "discBcast")
        /\ Local(h, WithFan([hr EXCEPT !.pc = "discLoop", !.msg = m], m))

DiscEnd(h) ==
    /\ At(h, "discLoop")
    /\ handlers[h].todo = {}
    /\ Local(h, [handlers[h] EXCEPT !.pc = "done"])

(* case "kick", lines 324-375; the target is msg.Msg *)

Target(m) == IF m.Msg = <<>> THEN "" ELSE m.Msg[1]

KickGet(h) ==
    LET hr == handlers[h]
        m == hr.msg
        r == GroupMapGet(groups, m.To)
    IN  /\ At(h, "kick")
        /\ Local(h,
             IF r.ok /\ r.group.Owner = m.User
             THEN [hr EXCEPT !.pc = "kickRemove"]
             ELSE [hr EXCEPT !.pc = "respond",
                      !.resp = Response(m,
                                 IF r.ok
                                 THEN <<"You don't have permission to remove users from group ", m.To, "!">>
                                 ELSE <<"Group ", m.To, " doesn't exist!">>,
                                 "")])

\* groups.RemoveUser(msg.To, msg.Msg), line 335
KickRemove(h) ==
    LET hr == handlers[h]
        m == hr.msg
        ok == GroupMapRemoveUserCheck(groups, m.To, Target(m))
    IN  /\ At(h, "kickRemove")
        /\ Local(h, IF ok
                    THEN [hr EXCEPT !.pc = "kickBcast",
                                    !.call = Call("RemoveUser", m.To, Target(m), 0)]
                    ELSE [hr EXCEPT !.pc = "respond",
                                    !.resp = Response(m, <<"User ", Target(m), " isn't in the group ", m.To, ".">>, "")])

\* lines 338-351
KickBcast(h) ==
    LET hr == handlers[h]
        m == hr.msg
        kickedMsg == [m EXCEPT !.User = Target(m),
                               !.Msg = <<Target(m), " has been kicked from the group.">>]
    IN  /\ At(h, "kickBcast")
        /\ Local(h, WithFan([hr EXCEPT !.pc = "kickNotify"], kickedMsg))

\* a kick that does not tell the kicked user
KickNotifySkipped(h) ==
    /\ At(h, "kickNotify")
    /\ Local(h, [handlers[h] EXCEPT !.pc = "done"])

\* lines 353-358
KickNotify(h) ==
    LET hr == handlers[h]
        m == hr.msg
        kickedUserMsg == Msg(Target(m), m.To,
                             <<"[", m.To, "] You've been removed from the group.">>,
                             "leave")
        nxt == [hr EXCEPT !.pc = "done"]
    IN  /\ At(h, "kickNotify")
        /\ SendMsg(h, kickedUserMsg, Target(m), nxt, nxt)

----------------------------------------------------------------------------
(* A goroutine that calls one mutator of a registry directly: the          *)
(* read-locked half runs here and fixes the return value, the write-locked *)
(* half (AddrWrite, GroupWrite) follows when the check asks for it.        *)

\* the value the call returns, decided by its read-locked half
CallCheck(c) ==
    CASE c.op = "AddrAdd" -> ~AddrMapAddCheck(addrs, c.key)
      [] c.op = "AddrRemove" -> AddrMapRemoveCheck(addrs, c.key)
      [] c.op = "AddUser" -> GroupMapAddUserCheck(groups, c.key, c.user)
      [] c.op = "RemoveUser" -> GroupMapRemoveUserCheck(groups, c.key, c.user)
      [] c.op = "Create" -> ~GroupMapCreateCheck(groups, c.key)
      [] OTHER -> GroupMapDeleteCheck(groups, c.key)

\* the calls made
Calls ==
    {Call("AddrAdd", u, "", 0) : u \in Users}
    \cup {Call("AddrRemove", u, "", 0) : u \in Users}
    \cup {Call(op, g, u, 0) : op \in {"AddUser", "RemoveUser", "Create"},
                              g \in GroupNames, u \in Users}
    \cup {Call("Delete", g, "", 0) : g \in GroupNames}

\* a goroutine makes the call c; the Addr of an Add is the port of a fresh
\* connection
RegCall(h, c) ==
    LET cc == IF c.op = "AddrAdd" THEN [c EXCEPT !.port = nreq + 1] ELSE c
    IN  /\ status = "running"
        /\ FreeSlot(h)
        /\ nreq < MaxCalls
        /\ nreq' = nreq + 1
        /\ handlers' = [handlers EXCEPT ![h] =
              [IdleHandler EXCEPT !.pc = "done", !.cmd = "call", !.req = cc,
                                  !.ok = CallCheck(cc),
                                  !.call = IF CallCheck(cc) THEN cc ELSE NoCall]]
        /\ UNCHANGED <<addrs, groups, status, answers, inbox, lost>>
        /\ Frame

NextReg ==
    \E h \in H :
        \/ \E c \in Calls : RegCall(h, c)
        \/ AddrWrite(h)
        \/ GroupWrite(h)

----------------------------------------------------------------------------
(* The requests the server is sent *)

Bodies == {<<"hi">>}

Requests ==
    {Msg(u, "", <<>>, c) : u \in Users, c \in {"init", "disconnect"}}
    \cup {Msg(u, g, <<>>, c) : u \in Users, g \in GroupNames,
                               c \in {"join", "leave", "create", "delete"}}
    \cup {Msg(u, g, b, "group") : u \in Users, g \in GroupNames, b \in Bodies}
    \cup {Msg(u, t, b, "dm") : u \in Users, t \in Users, b \in Bodies}
    \cup {Msg(u, g, <<t>>, "kick") : u \in Users, g \in GroupNames, t \in Users}

\* no lone handler: the registries are those of NewServer
NoPre == [addrs |-> EmptyMap, groups |-> EmptyMap, msg |-> EmptyMsg]

NoCallRec == [op |-> "none", group |-> "", user |-> "", ok |-> FALSE,
              existed |-> FALSE, member |-> FALSE]

\* one step of the HandleRequest goroutine in slot h
HandlerStep(h) ==
    \/ AddrWrite(h) \/ GroupWrite(h)
    \/ FanGet(h) \/ (\E u \in Names : FanSend(h, u)) \/ FanClose(h)
    \/ InitGet(h) \/ InitAdd(h) \/ InitPort(h) \/ InitJoin(h) \/ InitCreate(h)
    \/ InitJoin2(h) \/ InitSync(h) \/ (\E u \in Names : InitSyncSend(h, u))
    \/ InitBcast(h)
    \/ JoinAdd(h) \/ JoinBcast(h) \/ JoinNotify(h) \/ JoinSync(h)
    \/ (\E u \in Names : JoinSyncSend(h, u)) \/ JoinEnd(h)
    \/ Dm(h) \/ GroupSay(h)
    \/ LeaveRemove(h) \/ LeaveBcast(h)
    \/ CreateGroup(h) \/ CreateAdd(h)
    \/ DeleteGet(h) \/ DeleteDel(h)
    \/ DiscRemove(h) \/ DiscNames(h) \/ (\E g \in GroupNames : DiscContains(h, g))
    \/ DiscRemoveUser(h) \/ DiscBcast(h) \/ DiscEnd(h)
    \/ KickGet(h) \/ KickRemove(h) \/ KickBcast(h) \/ KickNotify(h)
    \/ Respond(h)

(* The server alone: any request may arrive at any time, up to MaxHandlers *)
(* are handled concurrently, and each dial may or may not find a listener. *)

Init ==
    /\ addrs = EmptyMap
    /\ groups = EmptyMap
    /\ status = "running"
    /\ listening = {AnyPort}
    /\ handlers = [h \in H |-> IdleHandler]
    /\ nreq = 0
    /\ answers = [u \in Users |-> 0]
    /\ last = NoCallRec
    /\ cstate = [u \in Users |-> "unmodelled"]
    /\ cport = [u \in Users |-> 0]
    /\ cache = [u \in Users |-> EmptyMap]
    /\ inbox = [u \in Users |-> EmptyBag]
    /\ lost = FALSE
    /\ pre = NoPre

Next ==
    \E h \in H :
        \/ \E m \in Requests : Accept(h, m, nreq + 1)
        \/ AcceptBad(h)
        \/ HandlerStep(h)

Spec == Init /\ [][Next]_vars

----------------------------------------------------------------------------
(* One caller of the group registry: each call runs to its end before the *)
(* next one starts.                                                        *)

CallRec(op, g, u, ok) ==
    [op |-> op, group |-> g, user |-> u, ok |-> ok,
     existed |-> g \in DOMAIN groups,
     member |-> IF g \in DOMAIN groups THEN u \in groups[g].Users ELSE FALSE]

SeqFrame ==
    UNCHANGED <<addrs, status, listening, handlers, nreq, answers, cstate,
                cport, cache, inbox, lost, pre>>

CallCreate(g, owner) ==
    LET r == GroupMapCreate(groups, g, owner)
    IN  /\ groups' = r.v
        /\ last' = CallRec("Create", g, owner, r.ok)
        /\ SeqFrame

CallDelete(g) ==
    LET r == GroupMapDelete(groups, g)
    IN  /\ groups' = r.v
        /\ last' = CallRec("Delete", g, "", r.ok)
        /\ SeqFrame

CallAddUser(g, u) ==
    LET r == GroupMapAddUser(groups, g, u)
    IN  /\ groups' = r.v
        /\ last' = CallRec("AddUser", g, u, r.ok)
        /\ SeqFrame

CallRemoveUser(g, u) ==
    LET r == GroupMapRemoveUser(groups, g, u)
    IN  /\ groups' = r.v
        /\ last' = CallRec("RemoveUser", g, u, r.ok)
        /\ SeqFrame

NextSeq ==
    \E g \in GroupNames :
        \/ \E u \in Users : CallCreate(g, u)
        \/ CallCreate(g, "")
        \/ CallDelete(g)
        \/ \E u \in Users : CallAddUser(g, u)
        \/ \E u \in Users : CallRemoveUser(g, u)

SpecSeq == Init /\ [][NextSeq]_vars

\* the registries under concurrent direct callers
SpecReg == Init /\ [][NextReg]_vars

----------------------------------------------------------------------------
(* Server.SendGroupMsg on its own: one broadcast, from any registries, with *)
(* any set of listeners.                                                    *)

FanMsgs == {Msg(u, g, <<u, ": ", "hi">>, "group") : u \in Names, g \in {"g"}}

FanGroups ==
    {EmptyMap} \cup {("g" :> Group("", M)) : M \in SUBSET Names}

FanAddrs == UNION {[S -> Ports] : S \in SUBSET Names}

InitFan ==
    /\ addrs \in FanAddrs
    /\ groups \in FanGroups
    /\ status = "running"
    /\ listening \in SUBSET Ports
    /\ \E m \in FanMsgs :
          handlers = [h \in H |->
                        IF h = 1
                        THEN WithFan([IdleHandler EXCEPT !.pc = "done",
                                         !.cmd = m.Cmd, !.msg = m], m)
                        ELSE IdleHandler]
    /\ nreq = 0
    /\ answers = [u \in Users |-> 0]
    /\ last = NoCallRec
    /\ cstate = [u \in Users |-> "unmodelled"]
    /\ cport = [u \in Users |-> 0]
    /\ cache = [u \in Users |-> EmptyMap]
    /\ inbox = [u \in Users |-> EmptyBag]
    /\ lost = FALSE
    /\ pre = NoPre

NextFan ==
    \/ FanGet(1)
    \/ \E u \in Names : FanSend(1, u)
    \/ FanClose(1)

SpecFan == InitFan /\ [][NextFan]_vars

----------------------------------------------------------------------------
(* SendGroupMsg with a peer that never answers: response.Send, line 401,   *)
(* is called in the body of the loop, so the loop is inside that call for  *)
(* as long as the call lasts.                                              *)

\* the loop reaches a member with an Addr and response.Send does not return
FanStall(h, user) ==
    LET f == handlers[h].fan
    IN  /\ status = "running"
        /\ f.stage = "loop"
        /\ user \in f.pending
        /\ AddrMapGet(addrs, user).ok
        /\ Local(h, [handlers[h] EXCEPT !.fan.stage = "stalled",
                                        !.fan.pending = @ \ {user},
                                        !.cur = user])

NextStall ==
    \/ FanGet(1)
    \/ \E u \in Names : FanSend(1, u)
    \/ \E u \in Names : FanStall(1, u)
    \/ FanClose(1)

\* every step of the goroutine that can be taken is taken; whether a send
\* stalls is up to the peer
SpecStall ==
    /\ InitFan /\ [][NextStall]_vars
    /\ WF_vars(FanGet(1))
    /\ \A u \in Names : WF_vars(FanSend(1, u))
    /\ WF_vars(FanClose(1))

----------------------------------------------------------------------------
(* The error channel of a fan-out, step by step: errCh is unbuffered, so   *)
(* `c <- err` in SendGroupMsg waits until the drain loop of HandleRequest  *)
(* is at `<- errCh`, and the drain loop waits until an error is sent or    *)
(* the channel is closed.  The handler is the one of a "group" request: it *)
(* starts SendGroupMsg, drains errCh (lines 194-200) and sends the         *)
(* response (line 210).  fan.stage is the position of SendGroupMsg, pc the *)
(* position of the handler.                                                *)

\* Groups.Get(msg.To), line 390; a missing group goes to `c <- err`, line 414
ChanGet(h) ==
    LET f == handlers[h].fan
        r == GroupMapGet(groups, f.msg.To)
    IN  /\ status = "running"
        /\ f.stage = "get"
        /\ Local(h, IF r.ok
                    THEN [handlers[h] EXCEPT !.fan.stage = "loop",
                                             !.fan.pending = r.group.Users \ {f.msg.User}]
                    ELSE [handlers[h] EXCEPT !.fan.stage = "sendErr"])

\* one iteration of the loop, lines 394-409, up to its `c <- err`
ChanIter(h, user) ==
    LET f == handlers[h].fan
        response == [f.msg EXCEPT !.Msg = Bracket(f.msg.To, f.msg.Msg)]
        nxt == [handlers[h] EXCEPT !.fan.pending = @ \ {user}]
    IN  /\ status = "running"
        /\ f.stage = "loop"
        /\ user \in f.pending
        /\ SendMsg(h, response, user, nxt,
                   [nxt EXCEPT !.fan.stage = "sendErr",
                               !.encFailed = IF user \in DOMAIN addrs
                                             THEN @ \cup {user} ELSE @])

\* a SendGroupMsg that returns after it has reported an error
ChanSendErrReturns(h) ==
    /\ status = "running"
    /\ handlers[h].fan.stage = "sendErr"
    /\ handlers[h].pc = "drain"
    /\ ~handlers[h].closed
    /\ Local(h, [handlers[h] EXCEPT !.fan = NoFan, !.pc = "print",
                                    !.errs = @ + 1])

\* `c <- err` (lines 404, 408, 414) meets `err, ok = <- errCh` (line 195):
\* the sender goes on with the loop, the receiver has ok = true
ChanSendErr(h) ==
    /\ status = "running"
    /\ handlers[h].fan.stage = "sendErr"
    /\ handlers[h].pc = "drain"
    /\ ~handlers[h].closed
    /\ Local(h, [handlers[h] EXCEPT !.fan.stage = "loop", !.pc = "print",
                                    !.errs = @ + 1])

\* fmt.Println("Group message error:", err), line 196, and back to the receive
DrainPrint(h) ==
    /\ status = "running"
    /\ handlers[h].pc = "print"
    /\ Local(h, [handlers[h] EXCEPT !.pc = "drain"])

\* close(c), line 417, after the loop or after the error of a missing
\* group; SendGroupMsg returns
ChanClose(h) ==
    /\ status = "running"
    /\ handlers[h].fan.stage = "loop"
    /\ handlers[h].fan.pending = {}
    /\ Local(h, [handlers[h] EXCEPT !.fan = NoFan, !.closed = TRUE])

\* the receive on the closed channel has ok = false: break, line 198
DrainEnd(h) ==
    /\ status = "running"
    /\ handlers[h].pc = "drain"
    /\ handlers[h].closed
    /\ Local(h, [handlers[h] EXCEPT !.pc = "respond"])

InitChan ==
    /\ addrs \in FanAddrs
    /\ groups \in FanGroups
    /\ status = "running"
    /\ listening \in SUBSET Ports
    /\ \E m \in FanMsgs :
          handlers = [h \in H |->
                        IF h = 1
                        THEN WithFan([IdleHandler EXCEPT !.pc = "drain",
                                         !.cmd = m.Cmd, !.msg = m,
                                         !.resp = Response(m, Bracket(m.To, m.Msg), "")],
                                     m)
                        ELSE IdleHandler]
    /\ nreq = 0
    /\ answers = [u \in Users |-> 0]
    /\ last = NoCallRec
    /\ cstate = [u \in Users |-> "unmodelled"]
    /\ cport = [u \in Users |-> 0]
    /\ cache = [u \in Users |-> EmptyMap]
    /\ inbox = [u \in Users |-> EmptyBag]
    /\ lost = FALSE
    /\ pre = NoPre

NextChan ==
    \/ ChanGet(1)
    \/ \E u \in Names : ChanIter(1, u)
    \/ ChanSendErr(1)
    \/ DrainPrint(1)
    \/ ChanClose(1)
    \/ DrainEnd(1)
    \/ Respond(1)

\* a goroutine that can run does run
SpecChan == InitChan /\ [][NextChan]_vars /\ WF_vars(NextChan)

----------------------------------------------------------------------------
(* One request handled alone: HandleRequest has decoded a request and runs *)
(* to its end with no other goroutine, from any state of the registries.   *)

\* the port of the listener of a user: one port per username
PortOf(u) == CHOOSE i \in 1..NumNames : UserNames[i] = u

CmdAddrs == {[u \in S |-> PortOf(u)] : S \in SUBSET Names}

\* "global" is created by init with no owner; "g" by a create request
CmdGroups ==
    LET globals == {EmptyMap}
                   \cup {[x \in {"global"} |-> Group("", S)] : S \in SUBSET Names}
        others == {EmptyMap}
                  \cup {[x \in {"g"} |-> Group(o, S)] : o \in Users, S \in SUBSET Names}
    IN  {[x \in DOMAIN a \cup DOMAIN b |-> IF x \in DOMAIN a THEN a[x] ELSE b[x]] :
            a \in globals, b \in others}

InitCmd ==
    /\ addrs \in CmdAddrs
    /\ groups \in CmdGroups
    /\ status = "running"
    /\ listening = {AnyPort}
    /\ \E m \in Requests :
          /\ handlers = [h \in H |->
                           IF h = 1
                           THEN [IdleHandler EXCEPT !.pc = m.Cmd, !.cmd = m.Cmd,
                                                    !.msg = m, !.port = NumNames + 1]
                           ELSE IdleHandler]
          /\ pre = [addrs |-> addrs, groups |-> groups, msg |-> m]
    /\ nreq = 1
    /\ answers = [u \in Users |-> 0]
    /\ last = NoCallRec
    /\ cstate = [u \in Users |-> "unmodelled"]
    /\ cport = [u \in Users |-> 0]
    /\ cache = [u \in Users |-> EmptyMap]
    /\ inbox = [u \in Users |-> EmptyBag]
    /\ lost = FALSE

NextCmd == HandlerStep(1)

SpecCmd == InitCmd /\ [][NextCmd]_vars

----------------------------------------------------------------------------
(* clnt.Client processes together with the server.  A client dials the    *)
(* server for every request; its listener and its cache live as long as   *)
(* the process.                                                            *)

\* a HandleResponse that ignores what other users do
HandleResponseSelfOnly(v, username, response) ==
    IF response.User = username
    THEN CASE response.Cmd \in {"leave", "delete"} ->
                  GroupMapDelete(v, response.To).v
           [] response.Cmd \in {"create", "join"} ->
                  GroupMapAddUser(GroupMapCreate(v, response.To, "").v,
                                  response.To, response.User).v
           [] OTHER -> v
    ELSE v

\* a HandleResponse that drops the cached group when the user who left or
\* was kicked is not a cached member of it
HandleResponseLeaveDrops(v, username, response) ==
    IF response.User = username
    THEN CASE response.Cmd \in {"leave", "delete"} ->
                  GroupMapDelete(v, response.To).v
           [] response.Cmd \in {"create", "join"} ->
                  GroupMapAddUser(GroupMapCreate(v, response.To, "").v,
                                  response.To, response.User).v
           [] OTHER -> v
    ELSE CASE response.Cmd \in {"leave", "kick"} ->
                  IF GroupMapRemoveUser(v, response.To, response.User).ok
                  THEN GroupMapRemoveUser(v, response.To, response.User).v
                  ELSE GroupMapDelete(v, response.To).v
           [] response.Cmd = "delete" -> GroupMapDelete(v, response.To).v
           [] response.Cmd = "join" ->
                  GroupMapAddUser(v, response.To, response.User).v
           [] OTHER -> v

\* HandleResponse, lines 171-197: the cache after one push is processed
HandleResponse(v, username, response) ==
    IF response.User = username
    THEN CASE response.Cmd \in {"leave", "delete"} ->
                  GroupMapDelete(v, response.To).v
           [] response.Cmd \in {"create", "join"} ->
                  GroupMapAddUser(GroupMapCreate(v, response.To, "").v,
                                  response.To, response.User).v
           [] OTHER -> v
    ELSE CASE response.Cmd \in {"leave", "kick"} ->
                  GroupMapRemoveUser(v, response.To, response.User).v
           [] response.Cmd = "delete" -> GroupMapDelete(v, response.To).v
           [] response.Cmd = "join" ->
                  GroupMapAddUser(v, response.To, response.User).v
           [] OTHER -> v

\* Connect, lines 66-67: the cache after the seeding of "global"
SeedCache(v, username) ==
    GroupMapAddUser(GroupMapCreate(v, "global", "").v, "global", username).v

ClientFrame == UNCHANGED <<addrs, groups, status, nreq, answers, last, lost, pre>>

\* Connect, lines 33-44: dial the server and send the init request
ClientConnect(c, h) ==
    /\ cstate[c] \in {"off", "failed"}
    /\ nreq < MaxCommands
    /\ AcceptReq(h, Msg(c, "", <<>>, "init"), nreq + 1)
    /\ cstate' = [cstate EXCEPT ![c] = "dialed"]
    /\ UNCHANGED <<listening, cport, cache, inbox, last, pre>>

\* the init handler has answered the client c that waits in Decode
Answered(c, h, reply) ==
    /\ cstate[c] = "dialed"
    /\ handlers[h].cmd = "init"
    /\ handlers[h].msg.User = c
    /\ handlers[h].reply = reply
    /\ ~handlers[h].read

\* a Connect that seeds the cache although the username is taken
ClientRejectedSeeds(c, h) ==
    /\ Answered(c, h, "alreadyExists")
    /\ handlers' = [handlers EXCEPT ![h].read = TRUE]
    /\ cstate' = [cstate EXCEPT ![c] = "failed"]
    /\ cache' = [cache EXCEPT ![c] = SeedCache(@, c)]
    /\ UNCHANGED <<listening, cport, inbox>>
    /\ ClientFrame

\* Connect, lines 53-55: "alreadyExists" is answered and Connect fails
ClientRejected(c, h) ==
    /\ Answered(c, h, "alreadyExists")
    /\ handlers' = [handlers EXCEPT ![h].read = TRUE]
    /\ cstate' = [cstate EXCEPT ![c] = "failed"]
    /\ UNCHANGED <<listening, cport, cache, inbox>>
    /\ ClientFrame

\* Connect, lines 57-58 and Listen, lines 142-153: net.Listen binds the
\* port the server answered
ClientListen(c, h) ==
    /\ Answered(c, h, "port")
    /\ handlers' = [handlers EXCEPT ![h].read = TRUE]
    /\ cstate' = [cstate EXCEPT ![c] = "listening"]
    /\ cport' = [cport EXCEPT ![c] = handlers[h].port]
    /\ listening' = listening \cup {handlers[h].port}
    /\ UNCHANGED <<cache, inbox>>
    /\ ClientFrame

\* Listen, lines 145-150 and Connect, lines 60-62: net.Listen fails and
\* Connect returns the error
ClientListenFail(c, h) ==
    /\ Answered(c, h, "port")
    /\ handlers' = [handlers EXCEPT ![h].read = TRUE]
    /\ cstate' = [cstate EXCEPT ![c] = "failed"]
    /\ UNCHANGED <<listening, cport, cache, inbox>>
    /\ ClientFrame

\* Connect, lines 65-67
ClientSeed(c) ==
    /\ cstate[c] = "listening"
    /\ cache' = [cache EXCEPT ![c] = SeedCache(@, c)]
    /\ cstate' = [cstate EXCEPT ![c] = "ready"]
    /\ UNCHANGED <<handlers, listening, cport, inbox>>
    /\ ClientFrame

\* what HandleRequest, lines 86-107, sends for the user of client c
ClientRequests(c) ==
    {m \in Requests : m.User = c /\ m.Cmd \notin {"init", "disconnect"}}

\* HandleRequest, lines 102-107: msg.Send to the server
ClientRequest(c, h, m) ==
    /\ cstate[c] = "ready"
    /\ nreq < MaxCommands
    /\ AcceptReq(h, m, nreq + 1)
    /\ UNCHANGED <<listening, cstate, cport, cache, inbox, last, pre>>

\* Disconnect, lines 206-212, after which the process ends: its listener
\* and its cache are gone
ClientDisconnect(c, h) ==
    /\ cstate[c] = "ready"
    /\ nreq < MaxCommands
    /\ AcceptReq(h, Msg(c, "", <<>>, "disconnect"), nreq + 1)
    /\ cstate' = [cstate EXCEPT ![c] = "off"]
    /\ listening' = listening \ {cport[c]}
    /\ cport' = [cport EXCEPT ![c] = 0]
    /\ cache' = [cache EXCEPT ![c] = EmptyMap]
    /\ inbox' = [inbox EXCEPT ![c] = EmptyBag]
    /\ UNCHANGED <<last, pre>>

\* Listen, lines 155-163 and HandleResponse: one accepted push is processed
ClientHandleResponse(c) ==
    /\ cstate[c] \in {"listening", "ready"}
    /\ \E response \in DOMAIN inbox[c] :
          /\ inbox' = [inbox EXCEPT ![c] = DelRec(@, response)]
          /\ cache' = [cache EXCEPT ![c] = HandleResponse(@, c, response)]
    /\ UNCHANGED <<handlers, listening, cstate, cport>>
    /\ ClientFrame

InitE2E ==
    /\ addrs = EmptyMap
    /\ groups = EmptyMap
    /\ status = "running"
    /\ listening = {}
    /\ handlers = [h \in H |-> IdleHandler]
    /\ nreq = 0
    /\ answers = [u \in Users |-> 0]
    /\ last = NoCallRec
    /\ cstate = [u \in Users |-> "off"]
    /\ cport = [u \in Users |-> 0]
    /\ cache = [u \in Users |-> EmptyMap]
    /\ inbox = [u \in Users |-> EmptyBag]
    /\ lost = FALSE
    /\ pre = NoPre

\* the goroutine slots open to the requests of the clients
Serving == 1..MaxServing

NextE2E ==
    \/ \E c \in Users, h \in Serving :
          \/ ClientConnect(c, h)
          \/ ClientRejected(c, h)
          \/ ClientListen(c, h)
          \/ ClientListenFail(c, h)
          \/ \E m \in ClientRequests(c) : ClientRequest(c, h, m)
          \/ ClientDisconnect(c, h)
    \/ \E c \in Users :
          \/ ClientSeed(c)
          \/ ClientHandleResponse(c)
    \/ \E h \in H : HandlerStep(h)

SpecE2E == InitE2E /\ [][NextE2E]_vars

----------------------------------------------------------------------------
(* HandleResponse alone: one client, any cache, any records, processed one *)
(* after the other.                                                        *)

\* the records a listener can be sent
PushRecords ==
    {Msg(u, g, <<>>, c) : u \in Names, g \in GroupNames,
                          c \in {"join", "leave", "kick", "delete", "create", "group", ""}}

\* the caches: whatever a GroupMap of groups without owner can hold
PushCaches ==
    LET one(g) == {EmptyMap} \cup {[x \in {g} |-> Group("", S)] : S \in SUBSET Names}
    IN  {[x \in DOMAIN a \cup DOMAIN b |-> IF x \in DOMAIN a THEN a[x] ELSE b[x]] :
            a \in one("global"), b \in one("g")}

\* the client whose push handler runs
Me == UserNames[1]

NoPush == [op |-> "none", rec |-> EmptyMsg, prev |-> EmptyMsg, member |-> FALSE]

InitPush ==
    /\ addrs = EmptyMap
    /\ groups = EmptyMap
    /\ status = "running"
    /\ listening = {PortOf(Me)}
    /\ handlers = [h \in H |-> IdleHandler]
    /\ nreq = 0
    /\ answers = [u \in Users |-> 0]
    /\ last = NoPush
    /\ cstate = [u \in Users |-> IF u = Me THEN "ready" ELSE "off"]
    /\ cport = [u \in Users |-> IF u = Me THEN PortOf(Me) ELSE 0]
    /\ cache \in {[u \in Users |-> IF u = Me THEN v ELSE EmptyMap] : v \in PushCaches}
    /\ inbox = [u \in Users |-> EmptyBag]
    /\ lost = FALSE
    /\ pre = NoPre

\* HandleResponse runs on the record of one accepted connection; `last`
\* keeps the record, the one before it, and whether the record's user was a
\* cached member of the record's group
Processes(response) ==
    /\ nreq < MaxPushes
    /\ nreq' = nreq + 1
    /\ cache' = [cache EXCEPT ![Me] = HandleResponse(@, Me, response)]
    /\ last' = [op |-> "HandleResponse", rec |-> response, prev |-> last.rec,
                member |-> IF response.To \in DOMAIN cache[Me]
                           THEN response.User \in cache[Me][response.To].Users
                           ELSE FALSE]
    /\ UNCHANGED <<addrs, groups, status, listening, handlers, answers,
                   cstate, cport, inbox, lost, pre>>

NextPush == \E r \in PushRecords : Processes(r)

SpecPush == InitPush /\ [][NextPush]_vars

----------------------------------------------------------------------------
(* One join with its client: the server handles, alone, a join request of  *)
(* the connected client Me, whose listener accepts the pushes and whose    *)
(* HandleResponse goroutines process them in any order.  When the request  *)
(* arrives the client has processed every earlier push: its cache holds    *)
(* the groups it is a member of, with their members.                       *)

\* the cache that agrees with the registry v for user u
CacheOf(v, u) ==
    [g \in {x \in DOMAIN v : u \in v[x].Users} |-> Group("", v[g].Users)]

InitJoinE2E ==
    /\ addrs \in {a \in CmdAddrs : Me \in DOMAIN a}
    /\ groups \in CmdGroups
    /\ status = "running"
    /\ listening = {AnyPort}
    /\ \E g \in GroupNames :
          /\ handlers = [h \in H |->
                           IF h = 1
                           THEN [IdleHandler EXCEPT !.pc = "join", !.cmd = "join",
                                                    !.msg = Msg(Me, g, <<>>, "join"),
                                                    !.port = NumNames + 1]
                           ELSE IdleHandler]
          /\ pre = [addrs |-> addrs, groups |-> groups, msg |-> Msg(Me, g, <<>>, "join")]
    /\ nreq = 1
    /\ answers = [u \in Users |-> 0]
    /\ last = NoCallRec
    /\ cstate = [u \in Users |-> IF u = Me THEN "ready" ELSE "unmodelled"]
    /\ cport = [u \in Users |-> IF u = Me THEN PortOf(Me) ELSE 0]
    /\ cache = [u \in Users |-> IF u = Me THEN CacheOf(groups, Me) ELSE EmptyMap]
    /\ inbox = [u \in Users |-> EmptyBag]
    /\ lost = FALSE

NextJoinE2E ==
    \/ JoinAdd(1) \/ GroupWrite(1) \/ JoinBcast(1)
    \/ FanGet(1) \/ (\E u \in Names : FanSend(1, u)) \/ FanClose(1)
    \/ JoinNotify(1) \/ JoinSync(1) \/ (\E u \in Names : JoinSyncSend(1, u))
    \/ JoinEnd(1) \/ Respond(1)
    \/ ClientHandleResponse(Me)

SpecJoinE2E == InitJoinE2E /\ [][NextJoinE2E]_vars

----------------------------------------------------------------------------
(* A client that quits: main (part_001, lines 31-45) starts a goroutine    *)
(* per input line and, on "q", leaves the loop and runs the deferred       *)
(* Disconnect.  The server handles each connection in a goroutine of its   *)
(* own, so the last command and the disconnect may be handled in either    *)
(* order and step by step against each other.  The client Me is connected, *)
(* every member of every group has an Addr, and Me has MaxRequests         *)
(* requests left to send.  The pushes the listener of Me accepts stay      *)
(* unprocessed: the registries do not depend on the cache.                 *)

InitQuit ==
    /\ addrs \in {a \in CmdAddrs : Me \in DOMAIN a}
    /\ groups \in {v \in CmdGroups :
                      /\ "global" \in DOMAIN v
                      /\ Me \in v["global"].Users
                      /\ \A g \in DOMAIN v : v[g].Users \subseteq DOMAIN addrs}
    /\ status = "running"
    /\ listening = {AnyPort}
    /\ handlers = [h \in H |-> IdleHandler]
    /\ nreq = MaxCommands - MaxRequests
    /\ answers = [u \in Users |-> 0]
    /\ last = NoCallRec
    /\ cstate = [u \in Users |-> IF u = Me THEN "ready" ELSE "unmodelled"]
    /\ cport = [u \in Users |-> IF u = Me THEN PortOf(Me) ELSE 0]
    /\ cache = [u \in Users |-> IF u = Me THEN CacheOf(groups, Me) ELSE EmptyMap]
    /\ inbox = [u \in Users |-> EmptyBag]
    /\ lost = FALSE
    /\ pre = NoPre

\* the commands that make their sender a member of a group
QuitRequests == {m \in ClientRequests(Me) : m.Cmd \in {"join", "create"}}

\* one step of a goroutine that handles a join, a create or a disconnect
QuitStep(h) ==
    \/ AddrWrite(h) \/ GroupWrite(h)
    \/ FanGet(h) \/ (\E u \in Names : FanSend(h, u)) \/ FanClose(h)
    \/ JoinAdd(h) \/ JoinBcast(h) \/ JoinNotify(h) \/ JoinSync(h)
    \/ (\E u \in Names : JoinSyncSend(h, u)) \/ JoinEnd(h)
    \/ CreateGroup(h) \/ CreateAdd(h)
    \/ DiscRemove(h) \/ DiscNames(h) \/ (\E g \in GroupNames : DiscContains(h, g))
    \/ DiscRemoveUser(h) \/ DiscBcast(h) \/ DiscEnd(h)
    \/ Respond(h)

NextQuit ==
    \E h \in H :
        \/ \E m \in QuitRequests : ClientRequest(Me, h, m)
        \/ ClientDisconnect(Me, h)
        \/ QuitStep(h)

SpecQuit == InitQuit /\ [][NextQuit]_vars

----------------------------------------------------------------------------
(* One bootstrap with the clients around it: the users online are          *)
(* registered, members of "global" and listening (the client of Me among   *)
(* them is part of the model, with a cache that agrees with the server),   *)
(* and the client Newcomer runs Connect.  A dial to a port nobody listens  *)
(* on fails.                                                               *)

Newcomer == UserNames[2]

\* the sets of users online before the newcomer
Onliners == SUBSET (Names \ {Newcomer})

InitBoot ==
    /\ \E S \in Onliners :
          /\ addrs = [u \in S |-> PortOf(u)]
          /\ groups = IF S = {} THEN EmptyMap
                      ELSE [x \in {"global"} |-> Group("", S)]
          /\ listening = {PortOf(u) : u \in S}
          /\ cstate = [u \in Users |-> IF u \in S THEN "ready" ELSE "off"]
          /\ cport = [u \in Users |-> IF u \in S THEN PortOf(u) ELSE 0]
          /\ cache = [u \in Users |-> IF u \in S THEN CacheOf(groups, u) ELSE EmptyMap]
    /\ pre = [addrs |-> addrs, groups |-> groups, msg |-> Msg(Newcomer, "", <<>>, "init")]
    /\ status = "running"
    /\ handlers = [h \in H |-> IdleHandler]
    /\ nreq = NumNames
    /\ answers = [u \in Users |-> 0]
    /\ last = NoCallRec
    /\ inbox = [u \in Users |-> EmptyBag]
    /\ lost = FALSE

NextBoot ==
    \/ ClientConnect(Newcomer, 1)
    \/ InitGet(1) \/ InitAdd(1) \/ AddrWrite(1) \/ InitPort(1)
    \/ InitJoin(1) \/ InitCreate(1) \/ InitJoin2(1) \/ GroupWrite(1)
    \/ InitSync(1) \/ (\E u \in Names : InitSyncSend(1, u)) \/ InitBcast(1)
    \/ FanGet(1) \/ (\E u \in Names : FanSend(1, u)) \/ FanClose(1)
    \/ ClientListen(Newcomer, 1) \/ ClientListenFail(Newcomer, 1)
    \/ ClientSeed(Newcomer)
    \/ \E c \in Users : ClientHandleResponse(c)

SpecBoot == InitBoot /\ [][NextBoot]_vars

----------------------------------------------------------------------------
(* Properties *)

\* no goroutine of the server is inside HandleRequest
Quiescent == \A h \in H : Returned(h)

\* C1: among the init requests for a username handled with no disconnect of
\* that username in between, exactly one is answered with a port.
C1_InitOnce == \A u \in Users : answers[u] <= 1

\* C2: whenever no request is being handled, every user with an Addr is a
\* member of the group "global".
C2_GlobalMember ==
    Quiescent =>
        \A u \in DOMAIN addrs :
            "global" \in DOMAIN groups /\ u \in groups["global"].Users

\* C5: from the moment a group name is in the registry until it is deleted,
\* its owner never changes and no member is lost except to RemoveUser.
C5_OwnerWriteOnce ==
    [][\A g \in DOMAIN groups \cap DOMAIN groups' :
          /\ groups'[g].Owner = groups[g].Owner
          /\ \A u \in groups[g].Users \ groups'[g].Users :
                \E h \in H : /\ handlers[h].call.op = "RemoveUser"
                             /\ handlers[h].call.key = g
                             /\ handlers[h].call.user = u]_vars

\* C8: of two AddrMap.Add calls for the same username that are in progress at
\* the same time, at most one returns true.
C8_SingleWinner ==
    \A h1, h2 \in H :
        (/\ h1 # h2
         /\ handlers[h1].req.op = "AddrAdd" /\ handlers[h1].call.op = "AddrAdd"
         /\ handlers[h2].req.op = "AddrAdd" /\ handlers[h2].call.op = "AddrAdd"
         /\ handlers[h1].req.key = handlers[h2].req.key)
        => ~(handlers[h1].ok /\ handlers[h2].ok)

\* the members SendGroupMsg pushes to, and those of them it cannot reach
FanRecipients ==
    IF handlers[1].msg.To \in DOMAIN groups
    THEN groups[handlers[1].msg.To].Users \ {handlers[1].msg.User}
    ELSE {}

FanStale ==
    {u \in FanRecipients : u \notin DOMAIN addrs \/ addrs[u] \notin listening}

FanPush == [handlers[1].msg EXCEPT !.Msg = Bracket(handlers[1].msg.To, @)]

\* C9: when exactly one recipient of a broadcast has a stale Addr (none in
\* the registry, or one nobody listens on) and no other send fails, the
\* broadcast ends, every other recipient got the push once and one error was
\* reported before the channel was closed.
C9_PartialFailure ==
    (Cardinality(FanStale) = 1 /\ handlers[1].encFailed = {}) =>
        /\ status = "running"
        /\ handlers[1].closed =>
              /\ handlers[1].errs = 1
              /\ \A u \in FanRecipients \ FanStale :
                    Count(handlers[1].sent, [to |-> u, rec |-> FanPush]) = 1

\* C10: a failed outbound connection does not stop the server.
C10_ServerSurvives == status # "panicDial"

\* C4: GroupMap.Create(g, a) on an unused name returns true and yields a
\* group with owner a and no member; Create on a name in use (so also a
\* following Create(g, b)) returns false and leaves the group as it was.
C4_CreateOnce ==
    [][\A g \in GroupNames :
          (last'.op = "Create" /\ last'.group = g) =>
             IF g \notin DOMAIN groups
             THEN /\ last'.ok
                  /\ g \in DOMAIN groups'
                  /\ groups'[g] = [Owner |-> last'.user, Users |-> {}]
             ELSE /\ ~last'.ok
                  /\ g \in DOMAIN groups'
                  /\ groups'[g].Owner = groups[g].Owner
                  /\ groups'[g].Users = groups[g].Users]_vars

\* a Create by another user on a group a user created has just returned false
C4_Witness ==
    /\ last.op = "Create" /\ last.existed /\ ~last.ok
    /\ last.group \in DOMAIN groups
    /\ groups[last.group].Owner \in Users \ {last.user}
    /\ last.user \in Users

\* C6: for an existing group g, AddUser(g, u) returns true when u is not a
\* member and makes u one; called again, with u a member, it returns false
\* and changes nothing; ContainsUser(g, u) is (true, true) after either call.
C6_AddUserIdempotent ==
    [][\A g \in GroupNames, u \in Users :
          (last'.op = "AddUser" /\ last'.group = g /\ last'.user = u
             /\ g \in DOMAIN groups) =>
             /\ IF u \notin groups[g].Users
                THEN /\ last'.ok
                     /\ groups' = [groups EXCEPT ![g].Users = @ \cup {u}]
                ELSE /\ ~last'.ok
                     /\ groups' = groups
             /\ GroupMapContainsUser(groups', g, u) = <<TRUE, TRUE>>]_vars

\* the second AddUser of a member has just returned false
C6_Witness ==
    /\ last.op = "AddUser" /\ last.existed /\ last.member /\ ~last.ok
    /\ GroupMapContainsUser(groups, last.group, last.user) = <<TRUE, TRUE>>

\* C7: RemoveUser(g, u) returns false and changes no group when u is not a
\* member of g or g does not exist; it returns true only when u was a member,
\* and then removes u from g and nothing else.
C7_RemoveUserFrame ==
    [][\A g \in GroupNames, u \in Users :
          (last'.op = "RemoveUser" /\ last'.group = g /\ last'.user = u) =>
             IF g \in DOMAIN groups /\ u \in groups[g].Users
             THEN /\ last'.ok
                  /\ groups' = [groups EXCEPT ![g].Users = @ \ {u}]
             ELSE /\ ~last'.ok
                  /\ groups' = groups]_vars

\* RemoveUser of a non-member of an existing group with members has returned
C7_Witness ==
    /\ last.op = "RemoveUser" /\ last.existed /\ ~last.member /\ ~last.ok
    /\ groups[last.group].Users # {}

\* every request is fully handled and every push is delivered and processed:
\* no handler runs, no client is inside Connect, no push was dropped and no
\* inbox holds a record
Settled ==
    /\ status = "running"
    /\ Quiescent
    /\ ~lost
    /\ \A c \in Users : /\ cstate[c] \in {"off", "failed", "ready"}
                        /\ DOMAIN inbox[c] = {}

\* the groups of the server that user c is a member of, with their members
ServerView(c) ==
    [g \in {x \in DOMAIN groups : c \in groups[x].Users} |-> groups[g].Users]

\* the groups of the cache of client c, with their members
CacheView(c) == [g \in DOMAIN cache[c] |-> cache[c][g].Users]

\* C3: whenever every request has been fully handled and every push has been
\* delivered and processed, the cache of each connected client holds exactly
\* the groups of the server that contain its user, each with the member set
\* the server has.
C3_CacheConsistent ==
    Settled => \A c \in Users : cstate[c] = "ready" => CacheView(c) = ServerView(c)

----------------------------------------------------------------------------
(* The single commands, each handled alone (SpecCmd) *)

\* the lone handler has returned
CmdDone == handlers[1].pc = "done" /\ Returned(1) /\ status = "running"

\* the records the lone handler has pushed to user u so far
PushesTo(u) == {e \in DOMAIN handlers[1].sent : e.to = u}

\* user u has been pushed the record r once and nothing else
PushedOnly(u, r) ==
    /\ PushesTo(u) = {[to |-> u, rec |-> r]}
    /\ handlers[1].sent[[to |-> u, rec |-> r]] = 1

\* every member of group g had an Addr when the request arrived, and no
\* send has failed since
Reachable(g) ==
    /\ pre.groups[g].Users \subseteq DOMAIN pre.addrs
    /\ ~lost

\* the request is a kick by the owner of an existing group whose target is
\* a member
OwnerKicksMember ==
    /\ pre.msg.Cmd = "kick"
    /\ pre.msg.To \in DOMAIN pre.groups
    /\ pre.groups[pre.msg.To].Owner = pre.msg.User
    /\ Target(pre.msg) \in pre.groups[pre.msg.To].Users

\* C11: when the owner of G kicks a member M, with every member reachable:
\* M is removed from G and nothing else changes; M is pushed one record,
\* tagged "leave" with user M and to G; every remaining member is pushed one
\* record tagged "kick" with user M; nobody else is pushed anything, so M gets
\* no broadcast push and the owner no separate response.
C11_Kick ==
    LET G == pre.msg.To
        M == Target(pre.msg)
        rest == pre.groups[G].Users \ {M}
    IN  (OwnerKicksMember /\ Reachable(G) /\ CmdDone) =>
           /\ groups = [pre.groups EXCEPT ![G].Users = rest]
           /\ addrs = pre.addrs
           /\ PushedOnly(M, Msg(M, G, <<"[", G, "] You've been removed from the group.">>, "leave"))
           /\ \A u \in rest :
                 PushedOnly(u, Msg(M, G, Bracket(G, <<M, " has been kicked from the group.">>), "kick"))
           /\ \A u \in Names \ (rest \cup {M}) : PushesTo(u) = {}

\* such a kick has been handled in a group with the owner and another member
\* remaining
C11_Witness ==
    /\ OwnerKicksMember /\ Reachable(pre.msg.To) /\ CmdDone
    /\ Target(pre.msg) # pre.msg.User
    /\ pre.msg.User \in groups[pre.msg.To].Users
    /\ Cardinality(groups[pre.msg.To].Users) = 2

\* the request is a kick or a delete for an existing group, sent by a user
\* who does not own it
NotOwner ==
    /\ pre.msg.Cmd \in {"kick", "delete"}
    /\ pre.msg.To \in DOMAIN pre.groups
    /\ pre.groups[pre.msg.To].Owner # pre.msg.User

\* the notice svr.go builds at lines 286 and 367
Denied(m) ==
    Response(m,
             IF m.Cmd = "kick"
             THEN <<"You don't have permission to remove users from group ", m.To, "!">>
             ELSE <<"You don't have permission to delete the group ", m.To, "!">>,
             "")

\* C12: a kick or delete for an existing group by a user who is not its
\* owner never changes a registry and never pushes anything to another user;
\* when the handler ends, the sender (if it has an Addr and the send did not
\* fail) has been pushed the permission-denied notice and nothing else.
C12_OwnerOnly ==
    NotOwner =>
       /\ groups = pre.groups
       /\ addrs = pre.addrs
       /\ \A u \in Names \ {pre.msg.User} : PushesTo(u) = {}
       /\ (CmdDone /\ pre.msg.User \in DOMAIN pre.addrs /\ ~lost) =>
             PushedOnly(pre.msg.User, Denied(pre.msg))

\* a member who is not the owner has asked to kick another member and has
\* been answered
C12_Witness ==
    /\ NotOwner /\ CmdDone /\ pre.msg.Cmd = "kick"
    /\ {pre.msg.User, Target(pre.msg)} \subseteq pre.groups[pre.msg.To].Users
    /\ Target(pre.msg) # pre.msg.User
    /\ PushedOnly(pre.msg.User, Denied(pre.msg))

\* the request is a delete of an existing group by its owner
OwnerDeletes ==
    /\ pre.msg.Cmd = "delete"
    /\ pre.msg.To \in DOMAIN pre.groups
    /\ pre.groups[pre.msg.To].Owner = pre.msg.User

\* C13: when the owner O deletes G: G leaves the registry only after every
\* member other than O has been pushed the one "has been deleted" record
\* tagged "delete" (members having an Addr, no send of the broadcast
\* failing); O is pushed nothing while G is in the registry, and only its
\* "delete"-tagged confirmation afterwards; G is out of the registry, and no
\* other group touched, when the handler ends.
C13_DeleteOrder ==
    LET G == pre.msg.To
        O == pre.msg.User
        push == Msg(O, G, Bracket(G, <<"has been deleted.">>), "delete")
        conf == Msg(O, G, <<"You deleted the group ", G, "!">>, "delete")
    IN  OwnerDeletes =>
           /\ (/\ G \notin DOMAIN groups
               /\ pre.groups[G].Users \subseteq DOMAIN pre.addrs
               /\ handlers[1].errs = 0)
                 => \A u \in pre.groups[G].Users \ {O} : PushedOnly(u, push)
           /\ PushesTo(O) # {} => (G \notin DOMAIN groups /\ PushedOnly(O, conf))
           /\ CmdDone => groups = [x \in DOMAIN pre.groups \ {G} |-> pre.groups[x]]

\* the owner has deleted a group with two other members, all of them told,
\* and has its confirmation
C13_Witness ==
    /\ OwnerDeletes /\ CmdDone
    /\ Cardinality(pre.groups[pre.msg.To].Users \ {pre.msg.User}) = 2
    /\ \A u \in pre.groups[pre.msg.To].Users : PushesTo(u) # {}
    /\ pre.msg.To \notin DOMAIN groups

\* the groups of the request's arrival that have both users as members
SharedGroups(u, w) ==
    {g \in DOMAIN pre.groups : {u, w} \subseteq pre.groups[g].Users}

\* the record the members of g are pushed when U disconnects
LeftPush(U, g) == Msg(U, g, Bracket(g, <<U, " has left the group.">>), "leave")

\* C14: a disconnect of a registered user U removes U's Addr and removes U
\* from every group, touching nothing else; U is pushed nothing; each other
\* member of a group U was in is pushed, once for that group, a record tagged
\* "leave" with user U (members having an Addr, no send failing).  A
\* disconnect of a user with no Addr changes no registry and pushes nothing.
C14_Disconnect ==
    LET U == pre.msg.User
    IN  pre.msg.Cmd = "disconnect" =>
           /\ PushesTo(U) = {}
           /\ U \notin DOMAIN pre.addrs =>
                 /\ addrs = pre.addrs /\ groups = pre.groups
                 /\ handlers[1].sent = EmptyBag
           /\ (U \in DOMAIN pre.addrs /\ CmdDone) =>
                 /\ addrs = [x \in DOMAIN pre.addrs \ {U} |-> pre.addrs[x]]
                 /\ groups = [g \in DOMAIN pre.groups |->
                                [pre.groups[g] EXCEPT !.Users = @ \ {U}]]
                 /\ (/\ ~lost
                     /\ \A g \in DOMAIN pre.groups :
                           pre.groups[g].Users \subseteq DOMAIN pre.addrs)
                       => \A u \in Names \ {U} : \A g \in SharedGroups(U, u) :
                             /\ [to |-> u, rec |-> LeftPush(U, g)] \in PushesTo(u)
                             /\ handlers[1].sent[[to |-> u, rec |-> LeftPush(U, g)]] = 1

\* a registered user who shared both groups with another user has
\* disconnected and the other user has both records
C14_Witness ==
    /\ pre.msg.Cmd = "disconnect" /\ CmdDone
    /\ pre.msg.User \in DOMAIN pre.addrs
    /\ \E u \in Names \ {pre.msg.User} :
          /\ SharedGroups(pre.msg.User, u) = {"global", "g"}
          /\ Cardinality(PushesTo(u)) = 2

\* the request is a group message of a member of the group
MemberSays ==
    /\ pre.msg.Cmd = "group"
    /\ pre.msg.To \in DOMAIN pre.groups
    /\ pre.msg.User \in pre.groups[pre.msg.To].Users

\* "[G] S: body"
Said(m) == <<"[", m.To, "] ", m.User, ": ">> \o m.Msg

\* C15: a group message changes no registry.  From a member S of G: when the
\* handler ends with no send failed, every other member of G that has an Addr
\* has been pushed "[G] S: body" once and nothing else, S has its one echo
\* "[G] S: body" and no broadcast push, and at no time is a user outside G
\* pushed anything.  From a user who is not a member, or for a missing group,
\* nobody but S is pushed anything.
C15_GroupSay ==
    LET m == pre.msg
        S == m.User
    IN  m.Cmd = "group" =>
           /\ groups = pre.groups /\ addrs = pre.addrs
           /\ ~MemberSays => \A u \in Names \ {S} : PushesTo(u) = {}
           /\ MemberSays =>
                 /\ \A u \in Names \ pre.groups[m.To].Users : PushesTo(u) = {}
                 /\ (CmdDone /\ ~lost) =>
                       /\ \A u \in (pre.groups[m.To].Users \ {S}) \cap DOMAIN pre.addrs :
                             PushedOnly(u, [m EXCEPT !.Msg = Said(m)])
                       /\ S \in DOMAIN pre.addrs =>
                             PushedOnly(S, Response(m, Said(m), ""))

\* a member has sent a group message to a group with a registered and an
\* unregistered other member, and has its echo
C15_Witness ==
    /\ MemberSays /\ CmdDone /\ ~lost
    /\ PushesTo(pre.msg.User) # {}
    /\ \E u, w \in pre.groups[pre.msg.To].Users \ {pre.msg.User} :
          /\ u \in DOMAIN pre.addrs /\ PushesTo(u) # {}
          /\ w \notin DOMAIN pre.addrs

\* the request is a join of an existing group by a user who is not a member
JoinsNew ==
    /\ pre.msg.Cmd = "join"
    /\ pre.msg.To \in DOMAIN pre.groups
    /\ pre.msg.User \notin pre.groups[pre.msg.To].Users

\* C16: a join of an existing group G by a non-member U, with U and the
\* members having an Addr and no send failing: at the end U is a member of G
\* and nothing else has changed, each pre-existing member has been pushed one
\* record tagged "join" with user U, U has been pushed its "join"
\* confirmation and one "join" record per pre-existing member, naming that
\* member, and nobody else anything.  A join of a missing group changes no
\* registry, pushes nothing to another user and ends with U holding only the
\* "doesn't exist" notice.
C16_Join ==
    LET m == pre.msg
        U == m.User
        G == m.To
        old == pre.groups[G].Users
    IN  m.Cmd = "join" =>
           /\ (/\ JoinsNew /\ CmdDone /\ ~lost
               /\ old \cup {U} \subseteq DOMAIN pre.addrs) =>
                 /\ groups = [pre.groups EXCEPT ![G].Users = old \cup {U}]
                 /\ addrs = pre.addrs
                 /\ \A u \in old :
                       PushedOnly(u, Msg(U, G, Bracket(G, <<U, " has joined the group.">>), "join"))
                 /\ PushesTo(U) =
                       {[to |-> U, rec |-> Response(m, <<"You have joined the group ", G, ".">>, "join")]}
                       \cup {[to |-> U, rec |-> Msg(w, G, <<>>, "join")] : w \in old}
                 /\ \A e \in PushesTo(U) : handlers[1].sent[e] = 1
                 /\ \A u \in Names \ (old \cup {U}) : PushesTo(u) = {}
           /\ G \notin DOMAIN pre.groups =>
                 /\ groups = pre.groups /\ addrs = pre.addrs
                 /\ \A u \in Names \ {U} : PushesTo(u) = {}
                 /\ (CmdDone /\ ~lost /\ U \in DOMAIN pre.addrs) =>
                       PushedOnly(U, Response(m, <<"Group ", G, " doesn't exist.">>, ""))

\* a user has joined a group that had two members and holds three records
C16_Witness ==
    /\ JoinsNew /\ CmdDone /\ ~lost
    /\ Cardinality(pre.groups[pre.msg.To].Users) = 2
    /\ Cardinality(PushesTo(pre.msg.User)) = 3
    /\ pre.msg.User \in groups[pre.msg.To].Users

\* C17: a create for an unused name G by U: nobody but U is ever pushed
\* anything, and at the end G exists with owner U and the member set {U},
\* nothing else has changed, and U (having an Addr, the send not failing) has
\* been pushed its "create" confirmation and nothing else.  A create for a
\* name in use changes no registry, pushes nothing to another user and ends
\* with U holding only the "already exists" notice.
C17_Create ==
    LET m == pre.msg
        U == m.User
        G == m.To
        told == CmdDone /\ ~lost /\ U \in DOMAIN pre.addrs
    IN  m.Cmd = "create" =>
           /\ addrs = pre.addrs
           /\ \A u \in Names \ {U} : PushesTo(u) = {}
           /\ G \notin DOMAIN pre.groups =>
                 /\ CmdDone =>
                       groups = [x \in DOMAIN pre.groups \cup {G} |->
                                   IF x = G THEN Group(U, {U}) ELSE pre.groups[x]]
                 /\ told => PushedOnly(U, Response(m, <<"You created the group ", G, "!">>, "create"))
           /\ G \in DOMAIN pre.groups =>
                 /\ groups = pre.groups
                 /\ told => PushedOnly(U, Response(m, <<"Group ", G, " already exists!">>, ""))

\* a registered user has created a group next to an existing one and has
\* been told
C17_Witness ==
    /\ pre.msg.Cmd = "create" /\ CmdDone
    /\ pre.msg.To \notin DOMAIN pre.groups
    /\ pre.groups # EmptyMap
    /\ PushesTo(pre.msg.User) # {}
    /\ groups[pre.msg.To] = Group(pre.msg.User, {pre.msg.User})

----------------------------------------------------------------------------
(* The client (SpecE2E) *)

\* C18: a client whose init is answered "alreadyExists" fails in Connect,
\* binds no listener and keeps an empty cache; the cache of a client is empty
\* until Connect seeds it, which happens only when its listener is bound,
\* and the seeded cache is "global" with the client as its only member.
C18_Bootstrap ==
    [][\A c \in Users :
          /\ (\E h \in H : Answered(c, h, "alreadyExists")) =>
                /\ cstate'[c] \in {"dialed", "failed"}
                /\ cport'[c] = 0
                /\ cache'[c] = EmptyMap
          /\ cstate'[c] # "ready" => cache'[c] = EmptyMap
          /\ cstate'[c] \in {"off", "dialed", "failed"} => cport'[c] = 0
          /\ (cstate[c] # "ready" /\ cstate'[c] = "ready") =>
                /\ cstate[c] = "listening"
                /\ cport[c] # 0 /\ cport[c] \in listening
                /\ cache'[c] = [g \in {"global"} |-> Group("", {c})]]_vars

\* a client has been answered "alreadyExists" and has failed, while another
\* client is connected with a seeded cache
C18_Witness ==
    \E c, d \in Users, h \in H :
        /\ cstate[c] = "failed"
        /\ handlers[h].msg.User = c /\ handlers[h].reply = "alreadyExists"
        /\ handlers[h].read
        /\ cache[c] = EmptyMap
        /\ cstate[d] = "ready" /\ "global" \in DOMAIN cache[d]

\* C19: after the client has processed a "join" record of its own user for
\* group g, g is cached with the client as a member; when the next record it
\* processes is a "leave" for g of another user, that user is not a cached
\* member of g afterwards, g is still cached and the client still a member.
C19_RoundTrip ==
    LET r == last.rec
        p == last.prev
    IN  last.op = "HandleResponse" =>
           /\ (r.Cmd = "join" /\ r.User = Me) =>
                 /\ r.To \in DOMAIN cache[Me]
                 /\ Me \in cache[Me][r.To].Users
           /\ (/\ p.Cmd = "join" /\ p.User = Me
               /\ r.Cmd = "leave" /\ r.User # Me /\ r.To = p.To) =>
                 /\ r.To \in DOMAIN cache[Me]
                 /\ r.User \notin cache[Me][r.To].Users
                 /\ Me \in cache[Me][r.To].Users

\* the client has processed its own join of g and then the leave of a user
\* who was a cached member of g
C19_Witness ==
    /\ last.op = "HandleResponse"
    /\ last.prev = Msg(Me, "g", <<>>, "join")
    /\ last.rec.Cmd = "leave" /\ last.rec.To = "g" /\ last.rec.User # Me
    /\ last.member
    /\ Cardinality(cache[Me]["g"].Users) = 2

\* the join of an existing group by the client Me has been handled, no push
\* was dropped, and the client has processed every record it was sent
JoinProcessed ==
    /\ JoinsNew /\ CmdDone /\ ~lost
    /\ DOMAIN inbox[Me] = {}

\* C20: once the confirmation and the per-member records of a join of an
\* existing group G have been processed by the client, in whatever order,
\* the cached member list of G holds the client and every member G had when
\* it joined.
C20_OutOfOrder ==
    JoinProcessed =>
       /\ pre.msg.To \in DOMAIN cache[Me]
       /\ pre.groups[pre.msg.To].Users \cup {Me} \subseteq cache[Me][pre.msg.To].Users

\* C21: for every record and every cache, processing the same record a
\* second time right after the first leaves the cache as the first
\* processing left it.
C21_Duplicate ==
    [][(/\ last.op = "HandleResponse"
        /\ last'.op = "HandleResponse"
        /\ last'.rec = last.rec) => cache' = cache]_vars

\* a record of another user that changed the cache has been processed a
\* second time: the join of a user who was not a cached member of g before,
\* or the leave of a user who was
C21_Witness ==
    /\ last.op = "HandleResponse" /\ nreq = 2
    /\ last.prev = last.rec
    /\ last.rec.User # Me /\ last.rec.To = "g"
    /\ "g" \in DOMAIN cache[Me]
    /\ \/ last.rec.Cmd = "join" /\ last.member
       \/ last.rec.Cmd = "leave" /\ ~last.member

\* the push of the fan-out to one member does not return
Stalled == handlers[1].fan.stage = "stalled"

\* C22: when the push to one member of a fan-out never completes, the push
\* to every other member of the group is still eventually attempted.
C22_StallIsolated ==
    \A w \in Names :
        (Stalled /\ w \in handlers[1].fan.pending) ~> (w \notin handlers[1].fan.pending)

\* the request is a join, leave, create, delete, kick or group whose
\* precondition does not hold in the registries it arrives at
CmdFails ==
    LET m == pre.msg
        v == pre.groups
    IN  CASE m.Cmd = "join" -> ~GroupMapAddUserCheck(v, m.To, m.User)
          [] m.Cmd = "leave" -> ~GroupMapRemoveUserCheck(v, m.To, m.User)
          [] m.Cmd = "create" -> GroupMapCreateCheck(v, m.To)
          [] m.Cmd = "delete" ->
                 IF m.To \in DOMAIN v THEN v[m.To].Owner # m.User ELSE TRUE
          [] m.Cmd = "kick" ->
                 IF m.To \in DOMAIN v
                 THEN \/ v[m.To].Owner # m.User
                      \/ ~GroupMapRemoveUserCheck(v, m.To, Target(m))
                 ELSE TRUE
          [] m.Cmd = "group" -> ~GroupMapContainsUser(v, m.To, m.User)[1]
          [] OTHER -> FALSE

\* processing record r changes no cache of no client
Harmless(r) ==
    \A c \in Names : \A v \in PushCaches : HandleResponse(v, c, r) = v

\* C23: a join, leave, create, delete, kick or group that fails its
\* precondition changes no registry; whatever is sent goes to the requester,
\* carries an empty command tag and changes no cache when processed; and
\* when the handler ends (the requester has an Addr, the send did not fail)
\* exactly one record has been sent.
C23_FailureNotice ==
    CmdFails =>
       /\ groups = pre.groups
       /\ addrs = pre.addrs
       /\ \A e \in DOMAIN handlers[1].sent :
             /\ e.to = pre.msg.User
             /\ e.rec.Cmd = ""
             /\ e.rec.User = pre.msg.User /\ e.rec.To = pre.msg.To
             /\ Harmless(e.rec)
       /\ (CmdDone /\ pre.msg.User \in DOMAIN pre.addrs /\ ~lost) =>
             /\ Cardinality(DOMAIN handlers[1].sent) = 1
             /\ \A e \in DOMAIN handlers[1].sent : handlers[1].sent[e] = 1

\* a join of a missing group, by a user with an Addr, has been answered
C23_Witness ==
    /\ CmdFails /\ CmdDone /\ ~lost
    /\ pre.msg.Cmd = "join" /\ pre.msg.To \notin DOMAIN pre.groups
    /\ pre.msg.User \in DOMAIN pre.addrs
    /\ Cardinality(DOMAIN handlers[1].sent) = 1

\* C24: once the error channel is closed it stays closed, SendGroupMsg has
\* returned and no further error is sent on it; the drain loop is left only
\* after the close; and, unless a send brings the process down, the handler
\* that started the fan-out reaches its end with the channel closed.
C24_NoDeadlock ==
    /\ [][handlers[1].closed =>
             /\ handlers[1].closed'
             /\ handlers[1].errs' = handlers[1].errs
             /\ handlers[1].fan.stage = "none"]_vars
    /\ [](handlers[1].pc \in {"respond", "done"} => handlers[1].closed)
    /\ <>(status # "running" \/ (handlers[1].pc = "done" /\ handlers[1].closed))

\* the handler has reached its end after a fan-out in which one member had
\* no Addr and the send to another member returned an error: two errors
\* were drained before the close
C24_Witness ==
    /\ handlers[1].pc = "done" /\ handlers[1].closed
    /\ status = "running"
    /\ handlers[1].errs = 2
    /\ handlers[1].encFailed # {}
    /\ \E u \in FanRecipients : u \notin DOMAIN addrs

\* C25: whenever no request is being handled, every member of every group
\* has an Addr.
C25_MembersHaveAddr ==
    Quiescent => \A g \in DOMAIN groups : groups[g].Users \subseteq DOMAIN addrs

\* C26: however AddUser, RemoveUser and Delete on a group interleave, the
\* write-locked step of AddUser or RemoveUser is never applied to a group
\* that is no longer in the registry: no call faults on a missing group.
C26_DeleteSafe == status # "panicNil"

\* the users who were registered members of "global" when the newcomer
\* connected
Online ==
    IF "global" \in DOMAIN pre.groups THEN pre.groups["global"].Users ELSE {}

\* the newcomer has completed Connect, its init is handled, and every push
\* was delivered and processed
Bootstrapped ==
    /\ Settled
    /\ cstate[Newcomer] = "ready"
    /\ handlers[1].cmd = "init"

\* C27: once the newcomer is bootstrapped and every push of its init has
\* been sent and processed, its cached "global" holds itself and every user
\* who was online, and the cached "global" of every client that was online
\* holds the newcomer.
C27_LearnsOnline ==
    Bootstrapped =>
       /\ "global" \in DOMAIN cache[Newcomer]
       /\ Online \cup {Newcomer} \subseteq cache[Newcomer]["global"].Users
       /\ \A c \in Users \cap Online :
             /\ "global" \in DOMAIN cache[c]
             /\ Newcomer \in cache[c]["global"].Users

====
